---- MODULE Spec2Model ----
(***************************************************************************)
(* esbuild-plugin-inklecate: the onLoad handler of src/index.mts.          *)
(*                                                                         *)
(* One invocation of the handler is a sequence of steps separated by the   *)
(* awaits of the code; each action below is one such step, run from one    *)
(* suspension point to the next.  The external compiler is the             *)
(* environment: it writes the output file, emits stdout chunks and exits   *)
(* (or fails to spawn).  Following the protocol the handler relies on, a   *)
(* stdout chunk holds nothing or a single JSON object.                     *)
(***************************************************************************)
EXTENDS Integers, Sequences, FiniteSets, TLC

\* ------------------------------------------------------------------ bounds
\* Non-empty stdout chunks delivered in a run with one invocation.
MaxEvents == 3
\* Non-empty stdout chunks delivered, in total, in a run with two invocations.
MaxConcEvents == 1

\* The invocations the host bundler may start.
Invocations == {1, 2}

\* ------------------------------------------------------------- option type
None == << >>
Some(x) == <<x>>
IsSome(o) == Len(o) = 1
Val(o) == o[1]

\* ---------------------------------------------------------------- the disk
\* Paths are sequences of segments; path.resolve(dir, file) appends.
OutputDir == "/tmp/out"
InputPath(i) == IF i = 1 THEN <<"/proj", "main.ink">> ELSE <<"/proj/sub", "main.ink">>

\* path.dirname(args.path)
Dirname(p) == p[1]

\* path.resolve(context.inkContainingDir, file); file is the regex capture,
\* a sequence of pieces (see ErrorMatch).
Resolve(dir, file) == <<dir>> \o file

\* The source files on disk, as text: a sequence of characters.
NL == "\n"
SourceFiles ==
  ( <<"/proj", "main.ink">>     :> <<"a", NL, "b", NL>> ) @@
  ( <<"/proj", "inc.ink">>      :> <<"c">> ) @@
  ( <<"/proj/sub", "main.ink">> :> <<"d", NL, "e">> ) @@
  ( <<"/proj/sub", "inc.ink">>  :> << >> )

\* fileText.split("\n")
RECURSIVE Split(_)
Split(text) ==
  IF \A k \in 1..Len(text) : text[k] # NL
    THEN <<text>>
    ELSE LET k == CHOOSE j \in 1..Len(text) :
                    text[j] = NL /\ \A h \in 1..(j-1) : text[h] # NL
         IN  <<SubSeq(text, 1, k-1)>> \o Split(SubSeq(text, k+1, Len(text)))

\* fileText.split("\n")[line - 1]: undefined when out of range.
LineText(text, line) ==
  LET lines == Split(text)
  IN  IF line - 1 \in 0..(Len(lines) - 1) THEN Some(lines[line]) ELSE None

\* ------------------------------------------------------------ issue strings
\* An issue string is a sequence of pieces.  A header piece stands for the
\* text  ERROR: '<file>' line <digits>:   or  WARNING: '<file>' line <digits>:
\* and a text piece for text that holds neither.
Hdr(k, f, digits) == [k |-> k, file |-> f, line |-> digits, text |-> ""]
Txt(t) == [k |-> "T", file |-> "", line |-> << >>, text |-> t]

LocatedError   == <<Hdr("ERROR", "main.ink", <<2>>), Txt("Divert target not found")>>
LocatedWarning == <<Hdr("WARNING", "inc.ink", <<0, 1>>), Txt("Blank choice")>>
PlainIssue     == <<Txt("Unexpected end of file")>>
BothIssue      == <<Hdr("WARNING", "main.ink", <<1>>), Txt("see"),
                    Hdr("ERROR", "main.ink", <<9>>), Txt("nested")>>
MissingFile    == <<Hdr("WARNING", "gone.ink", <<1>>), Txt("Unused include")>>
IssueStrings == {LocatedError, LocatedWarning, PlainIssue, BothIssue, MissingFile}

\* parseInt(digits, 10)
RECURSIVE ParseInt(_)
ParseInt(digits) ==
  IF digits = << >> THEN 0
  ELSE 10 * ParseInt(SubSeq(digits, 1, Len(digits) - 1)) + digits[Len(digits)]

IsHdr(piece) == piece.k \in {"ERROR", "WARNING"}

\* issue.match(/<kind>: '(.*)' line (\d+): (.*)/): the match starts at the
\* leftmost header of that kind; the greedy first group runs up to the last
\* "' line <digits>: " of the string, which is the last header piece.
\* None when the pattern does not match.
RegexMatch(kind, issue) ==
  LET starts == {p \in 1..Len(issue) : issue[p].k = kind}
  IN  IF starts = {} THEN None
      ELSE LET p == CHOOSE s \in starts : \A t \in starts : s <= t
               q == CHOOSE s \in p..Len(issue) :
                      IsHdr(issue[s]) /\ \A t \in (s+1)..Len(issue) : ~IsHdr(issue[t])
               hdrs == SelectSeq(SubSeq(issue, p, q), IsHdr)
           IN  Some([file |-> [j \in 1..Len(hdrs) |-> hdrs[j].file],
                     line |-> issue[q].line,
                     text |-> SubSeq(issue, q + 1, Len(issue))])

ErrorMatch(issue)   == RegexMatch("ERROR", issue)
WarningMatch(issue) == RegexMatch("WARNING", issue)

\* The located message readFileForMessage returns once the file text is known.
LocatedMessage(resolvedPath, line, text, fileText) ==
  [text |-> text,
   location |-> Some([file |-> resolvedPath, line |-> line,
                      lineText |-> LineText(fileText, line)])]

\* { text: issue }
UnlocatedMessage(issue) == [text |-> issue, location |-> None]

\* createESBuildMessageForIssue up to the file read: which severity the issue
\* gets and, when located, the match that decides the read.
IssueClassWarningFirst(issue) ==
  IF IsSome(WarningMatch(issue))
    THEN [severity |-> "warning", match |-> WarningMatch(issue)]
  ELSE IF IsSome(ErrorMatch(issue))
    THEN [severity |-> "error", match |-> ErrorMatch(issue)]
  ELSE [severity |-> "error", match |-> None]

IssueClass(issue) ==
  IF IsSome(ErrorMatch(issue))
    THEN [severity |-> "error", match |-> ErrorMatch(issue)]
  ELSE IF IsSome(WarningMatch(issue))
    THEN [severity |-> "warning", match |-> WarningMatch(issue)]
  ELSE [severity |-> "error", match |-> None]

\* ---------------------------------------------------------- compiler events
KeySuccess == "compile-success"
KeyIssues == "issues"
KeyExport == "export-complete"
KeyStats == "stats"

Stats1 == [words |-> 12, knots |-> 1]
Stats2 == [words |-> 0, knots |-> 0]

\* JSON.stringify(stats)
JSONStringify(s) ==
  "{\"words\":" \o ToString(s.words) \o ",\"knots\":" \o ToString(s.knots) \o "}"

\* The JSON objects the compiler may print, one per stdout chunk.
CompilerEvents ==
  { (KeyIssues :> <<LocatedError, LocatedWarning>>),
    (KeyIssues :> <<BothIssue, PlainIssue>>),
    (KeyIssues :> <<MissingFile>>),
    (KeySuccess :> TRUE) @@ (KeyExport :> TRUE),
    (KeySuccess :> FALSE),
    (KeyStats :> Stats1),
    (KeyExport :> FALSE) @@ (KeyStats :> Stats2) @@ (KeyIssues :> << >>) }

\* What stdout.read() gives after toString().trim(), split in lines: nothing,
\* or one JSON object.
Chunks == {<< >>} \cup {<<e>> : e \in CompilerEvents}

\* -------------------------------------------------------------------- state
VARIABLES
  options,    \* the plugin's options (only stats decides anything here)
  inv,        \* per invocation: the locals of one call of the onLoad handler
  disk,       \* the temporary output files on disk: path :> content
  dirExists,  \* whether tempOutputDir exists
  budget      \* non-empty stdout chunks the compilers may still deliver

vars == <<options, inv, disk, dirExists, budget>>

UUIDs == {"u1", "u2"}

\* What an invocation delivers: a returned value or a rejection.
NoOutcome == [kind |-> "none", errors |-> << >>, warnings |-> << >>,
              contents |-> None, loader |-> None, error |-> ""]
Return(errors, warnings, contents, loader) ==
  [kind |-> "return", errors |-> errors, warnings |-> warnings,
   contents |-> contents, loader |-> loader, error |-> ""]
Reject(error) ==
  [kind |-> "reject", errors |-> << >>, warnings |-> << >>,
   contents |-> None, loader |-> None, error |-> error]

\* The handler just called: it has built the flags of inklecateArgs and
\* awaits fs.mkdir.  uuid, the run state and the context are set on spawn.
NewInvocation(started) ==
  [pc |-> IF started THEN "mkdir" ELSE "idle",
   proc |-> "none",
   uuid |-> None,
   inkContainingDir |-> "",
   fileCacheForBuild |-> << >>,
   success |-> FALSE,
   exported |-> FALSE,
   issues |-> << >>,
   stats |-> None,
   idx |-> 1,
   errors |-> << >>,
   warnings |-> << >>,
   pending |-> NoOutcome,
   outcome |-> NoOutcome,
   events |-> << >>,     \* history: the JSON objects parsed so far
   seenAtExit |-> 0,     \* history: how many of them were parsed before "exit"
   wrote |-> None,       \* history: what the compiler wrote to outputPath
   log |-> << >>]        \* history: the file-system and process steps

\* path.resolve(outputDir, `${crypto.randomUUID()}.json`)
OutputPathFixedName(r) == <<OutputDir, "out.json">>
OutputPath(r) == <<OutputDir, Val(r.uuid) \o ".json">>

InitWith(started, chunks) ==
  /\ options \in [stats : BOOLEAN]
  /\ inv = [i \in Invocations |-> NewInvocation(i \in started)]
  /\ disk = << >>
  /\ dirExists \in BOOLEAN
  /\ budget = chunks

Init == InitWith({1}, MaxEvents)
InitConc == InitWith(Invocations, MaxConcEvents)

Set(i, r) == inv' = [inv EXCEPT ![i] = r]

\* The positions at which the handler is suspended and the event loop may
\* run a stdout "readable" callback.
SuspensionPoints == {"wait", "readSrc", "readOut", "rm", "settled"}

\* try { ... } finally { await fs.rm(outputPath, { force: true }) }:
\* leaving the try block with a value or an exception starts the deletion.
EnterFinally(r, pend) ==
  [r EXCEPT !.pending = pend, !.pc = "rm", !.log = Append(@, "rm")]

\* ------------------------------------------------------- the external process
\* The story the compiler exports for the input file of invocation i.
Story(i) == "story of " \o InputPath(i)[1]

WriteFile(d, path, content) ==
  [p \in DOMAIN d \cup {path} |-> IF p = path THEN content ELSE d[p]]

\* fs.rm(path, { force: true }) that succeeds: the file is gone afterwards,
\* and a missing file is not an error.
RemoveFileKeep(d, path) == d
RemoveFile(d, path) == [p \in DOMAIN d \ {path} |-> d[p]]

\* await new Promise(... on("error", reject); on("exit", resolve) ...)
AwaitExitSkipped(r) == [r EXCEPT !.pc = "loop"]
AwaitExit(r) == [r EXCEPT !.pc = "wait"]

\* fs.mkdir resolves; the handler runs on to the await of the exit promise:
\* output path, context, run state, spawn, the stdout and process listeners.
\* The spawn either starts the compiler or fails, which the child reports
\* later with an "error" event.
MkdirDone(i) ==
  LET r == inv[i]
      used == {Val(inv[j].uuid) : j \in {k \in Invocations : IsSome(inv[k].uuid)}}
  IN  /\ r.pc = "mkdir"
      /\ dirExists' = TRUE
      /\ \E u \in UUIDs \ used, spawned \in BOOLEAN :
           Set(i, AwaitExit([r EXCEPT
                  !.uuid = Some(u),
                  !.inkContainingDir = Dirname(InputPath(i)),
                  !.fileCacheForBuild = << >>,
                  !.success = FALSE,
                  !.exported = FALSE,
                  !.issues = << >>,
                  !.stats = None,
                  !.proc = IF spawned THEN "running" ELSE "failed",
                  !.log = <<"mkdir", "spawn">>]))
      /\ UNCHANGED <<options, disk, budget>>

\* fs.mkdir rejects: the await is outside the try, the handler rejects.
MkdirFail(i) ==
  LET r == inv[i]
  IN  /\ r.pc = "mkdir"
      /\ ~dirExists
      /\ Set(i, [r EXCEPT !.pc = "settled", !.outcome = Reject("mkdir failed")])
      /\ UNCHANGED <<options, disk, dirExists, budget>>

\* The compiler writes the story to the -o path.
ProcWrite(i) ==
  LET r == inv[i]
  IN  /\ r.proc = "running"
      /\ r.wrote = None
      /\ disk' = WriteFile(disk, OutputPath(r), Story(i))
      /\ Set(i, [r EXCEPT !.wrote = Some(Story(i))])
      /\ UNCHANGED <<options, dirExists, budget>>

\* The body of the "readable" listener for one parsed JSON object.
ApplyEventOverwrite(r, e) ==
  [r EXCEPT
     !.success = IF KeySuccess \in DOMAIN e THEN e[KeySuccess] ELSE @,
     !.issues = IF KeyIssues \in DOMAIN e THEN e[KeyIssues] ELSE @,
     !.exported = IF KeyExport \in DOMAIN e THEN e[KeyExport] ELSE @,
     !.stats = IF KeyStats \in DOMAIN e THEN Some(e[KeyStats]) ELSE @]

ApplyEvent(r, e) ==
  [r EXCEPT
     !.success = IF KeySuccess \in DOMAIN e THEN e[KeySuccess] ELSE @,
     !.issues = IF KeyIssues \in DOMAIN e THEN @ \o e[KeyIssues] ELSE @,
     !.exported = IF KeyExport \in DOMAIN e THEN e[KeyExport] ELSE @,
     !.stats = IF KeyStats \in DOMAIN e THEN Some(e[KeyStats]) ELSE @]

\* stdout "readable": the listener stays attached for the life of the stream,
\* which may outlive the "exit" event; it runs whenever the handler is
\* suspended.
Readable(i) ==
  LET r == inv[i]
  IN  /\ r.pc \in SuspensionPoints
      /\ r.proc \in {"running", "exited"}
      /\ \E chunk \in Chunks :
           IF chunk = << >>
             THEN UNCHANGED <<inv, budget>>
             ELSE /\ budget > 0
                  /\ budget' = budget - 1
                  /\ Set(i, [ApplyEvent(r, chunk[1]) EXCEPT
                               !.events = Append(@, chunk[1])])
      /\ UNCHANGED <<options, disk, dirExists>>

\* "exit": resolves the promise the handler awaits.
Exit(i) ==
  LET r == inv[i]
  IN  /\ r.proc = "running"
      /\ Set(i, [r EXCEPT !.proc = "exited",
                          !.seenAtExit = Len(r.events),
                          !.pc = IF @ = "wait" THEN "loop" ELSE @,
                          !.log = Append(@, "exit")])
      /\ UNCHANGED <<options, disk, dirExists, budget>>

\* "error": rejects the promise; the rejection leaves the try block.
ErrorEvent(i) ==
  LET r == inv[i]
  IN  /\ r.proc = "failed"
      /\ r.pc = "wait"
      /\ Set(i, EnterFinally([r EXCEPT !.log = Append(@, "error")],
                             Reject("spawn error")))
      /\ UNCHANGED <<options, disk, dirExists, budget>>

\* ------------------------------------------------------ diagnostic translation
\* errors.push(message.error) / warnings.push(message.warning), and on to the
\* next issue.
PushMessage(r, severity, message) ==
  [r EXCEPT !.errors = IF severity = "error" THEN Append(@, message) ELSE @,
            !.warnings = IF severity = "warning" THEN Append(@, message) ELSE @,
            !.idx = @ + 1,
            !.pc = "loop"]

\* The resolved path the issue at the loop index makes readFileForMessage read.
PathOf(r, match) == Resolve(r.inkContainingDir, match.file)

\* One iteration of  for (const issue of issues)  up to its first real
\* suspension: an unlocated issue or a cached file completes the iteration,
\* a file not yet cached starts fs.readFile.  The array iterator compares the
\* index with the current length, so the loop ends when the index passes it.
LoopStep(i) ==
  LET r == inv[i]
  IN  /\ r.pc = "loop"
      /\ IF r.idx > Len(r.issues)
           THEN Set(i, [r EXCEPT !.pc = "assemble"])
           ELSE LET issue == r.issues[r.idx]
                    c == IssueClass(issue)
                IN  IF c.match = None
                      THEN Set(i, PushMessage(r, c.severity, UnlocatedMessage(issue)))
                      ELSE LET m == Val(c.match)
                               path == PathOf(r, m)
                           IN  IF path \in DOMAIN r.fileCacheForBuild
                                 THEN Set(i, PushMessage(r, c.severity,
                                        LocatedMessage(path, ParseInt(m.line), m.text,
                                                       r.fileCacheForBuild[path])))
                                 ELSE Set(i, [r EXCEPT !.pc = "readSrc",
                                                       !.log = Append(@, "readSrc")])
      /\ UNCHANGED <<options, disk, dirExists, budget>>

\* fs.readFile(resolvedPath) settles: the text is cached and the message
\* pushed, or the read throws and the exception leaves the try block.
ReadSrcDone(i) ==
  LET r == inv[i]
      c == IssueClass(r.issues[r.idx])
      m == Val(c.match)
      path == PathOf(r, m)
  IN  /\ r.pc = "readSrc"
      /\ IF path \in DOMAIN SourceFiles
           THEN Set(i, PushMessage(
                  [r EXCEPT !.fileCacheForBuild =
                     [q \in DOMAIN @ \cup {path} |->
                        IF q = path THEN SourceFiles[path] ELSE @[q]]],
                  c.severity,
                  LocatedMessage(path, ParseInt(m.line), m.text, SourceFiles[path])))
           ELSE Set(i, EnterFinally(r, Reject("ENOENT source")))
      /\ UNCHANGED <<options, disk, dirExists, budget>>

\* ------------------------------------------------------------ result assembly
\* return { errors, warnings }
FailureResultWithLoader(errors, warnings) ==
  Return(errors, warnings, Some(""), Some("json"))
FailureResult(errors, warnings) == Return(errors, warnings, None, None)

\* The decisions between the end of the loop and the next await.
AssembleStepSuccessFirst(r, opts) ==
  IF ~r.success
    THEN EnterFinally(r, FailureResult(r.errors, r.warnings))
  ELSE IF IsSome(r.stats) /\ opts.stats
    THEN EnterFinally(r, Return(r.errors, r.warnings,
                                Some(JSONStringify(Val(r.stats))), Some("json")))
  ELSE IF r.exported
    THEN [r EXCEPT !.pc = "readOut", !.log = Append(@, "readOut")]
  ELSE EnterFinally(r, Return(r.errors, r.warnings, None, Some("json")))

AssembleStep(r, opts) ==
  IF IsSome(r.stats) /\ opts.stats
    THEN EnterFinally(r, Return(r.errors, r.warnings,
                                Some(JSONStringify(Val(r.stats))), Some("json")))
  ELSE IF ~r.success
    THEN EnterFinally(r, FailureResult(r.errors, r.warnings))
  ELSE IF r.exported
    THEN [r EXCEPT !.pc = "readOut", !.log = Append(@, "readOut")]
  ELSE EnterFinally(r, Return(r.errors, r.warnings, None, Some("json")))

Assemble(i) ==
  /\ inv[i].pc = "assemble"
  /\ Set(i, AssembleStep(inv[i], options))
  /\ UNCHANGED <<options, disk, dirExists, budget>>

\* fs.readFile(outputPath) settles: the content is returned, or the read
\* throws.
ReadOutDone(i) ==
  LET r == inv[i]
      path == OutputPath(r)
  IN  /\ r.pc = "readOut"
      /\ IF path \in DOMAIN disk
           THEN Set(i, EnterFinally(r, Return(r.errors, r.warnings,
                                              Some(disk[path]), Some("json"))))
           ELSE Set(i, EnterFinally(r, Reject("ENOENT output")))
      /\ UNCHANGED <<options, disk, dirExists, budget>>

\* -------------------------------------------------------------------- cleanup
\* fs.rm(outputPath, { force: true }) resolves: the handler settles with what
\* left the try block.
RmDone(i) ==
  LET r == inv[i]
  IN  /\ r.pc = "rm"
      /\ disk' = RemoveFile(disk, OutputPath(r))
      /\ Set(i, [r EXCEPT !.pc = "settled", !.outcome = r.pending])
      /\ UNCHANGED <<options, dirExists, budget>>

\* fs.rm rejects (force only hides a missing path): the exception thrown in
\* the finally block replaces what left the try block.
RmFail(i) ==
  LET r == inv[i]
  IN  /\ r.pc = "rm"
      /\ Set(i, [r EXCEPT !.pc = "settled", !.outcome = Reject("rm failed")])
      /\ UNCHANGED <<options, disk, dirExists, budget>>

\* ---------------------------------------------------------------- the system
Next ==
  \E i \in Invocations :
    \/ MkdirDone(i)
    \/ MkdirFail(i)
    \/ ProcWrite(i)
    \/ Readable(i)
    \/ Exit(i)
    \/ ErrorEvent(i)
    \/ LoopStep(i)
    \/ ReadSrcDone(i)
    \/ Assemble(i)
    \/ ReadOutDone(i)
    \/ RmDone(i)
    \/ RmFail(i)

Spec == Init /\ [][Next]_vars
SpecConc == InitConc /\ [][Next]_vars

\* ===================================================================== claims
\* The invocation has passed the spawn, so it has an output path and awaits
\* (or has awaited) the process.
Spawned(r) == IsSome(r.uuid)
OnDisk(r) == OutputPath(r) \in DOMAIN disk
Count(log, tag) == Cardinality({k \in 1..Len(log) : log[k] = tag})
DeletionFailed(r) == r.outcome = Reject("rm failed")

\* ------------------------------------------------------------------------ C6
\* The fold of a sequence of events, from the words of the claim.
LastCarrying(key, evs) ==
  LET ks == {k \in 1..Len(evs) : key \in DOMAIN evs[k]}
  IN  IF ks = {} THEN None
      ELSE Some(evs[CHOOSE k \in ks : \A h \in ks : h <= k][key])

RECURSIVE ConcatIssues(_)
ConcatIssues(evs) ==
  IF evs = << >> THEN << >>
  ELSE (IF KeyIssues \in DOMAIN Head(evs) THEN Head(evs)[KeyIssues] ELSE << >>)
       \o ConcatIssues(Tail(evs))

FoldSuccess(evs) ==
  IF IsSome(LastCarrying(KeySuccess, evs)) THEN Val(LastCarrying(KeySuccess, evs)) ELSE FALSE
FoldExported(evs) ==
  IF IsSome(LastCarrying(KeyExport, evs)) THEN Val(LastCarrying(KeyExport, evs)) ELSE FALSE

\* C6: after any sequence of compiler events the run state is the fold of the
\* sequence: each flag is the value of the last event carrying its key (false
\* if none), stats that of the last event carrying stats (absent if none), and
\* the issue list the concatenation of all issues arrays in arrival order.
C6_RunStateIsFold ==
  \A i \in Invocations :
    LET r == inv[i]
    IN  Spawned(r) =>
          /\ r.success = FoldSuccess(r.events)
          /\ r.exported = FoldExported(r.events)
          /\ r.stats = LastCarrying(KeyStats, r.events)
          /\ r.issues = ConcatIssues(r.events)

\* Three events: the first and the last carry compile-success with different
\* values, the one between them carries issues.
C6_Witness ==
  LET r == inv[1]
  IN  /\ Len(r.events) = 3
      /\ KeySuccess \in DOMAIN r.events[1]
      /\ KeySuccess \in DOMAIN r.events[3]
      /\ r.events[1][KeySuccess] # r.events[3][KeySuccess]
      /\ KeyIssues \in DOMAIN r.events[2]
      /\ Len(r.issues) >= 2

\* ------------------------------------------------------------------------ C5
\* The severity the claim gives an issue.
C5_IsError(issue) == IsSome(ErrorMatch(issue)) \/ ~IsSome(WarningMatch(issue))
C5_IsWarning(issue) == ~IsSome(ErrorMatch(issue)) /\ IsSome(WarningMatch(issue))
C5_Unlocated(issue) == ~IsSome(ErrorMatch(issue)) /\ ~IsSome(WarningMatch(issue))
\* The text of the one message of an issue.
C5_Text(issue) ==
  IF IsSome(ErrorMatch(issue)) THEN Val(ErrorMatch(issue)).text
  ELSE IF IsSome(WarningMatch(issue)) THEN Val(WarningMatch(issue)).text
  ELSE issue
\* The file the one message of a located issue is read from.
C5_File(issue) ==
  IF IsSome(ErrorMatch(issue)) THEN Val(ErrorMatch(issue)).file
  ELSE Val(WarningMatch(issue)).file
C5_Texts(issues) == [k \in 1..Len(issues) |-> C5_Text(issues[k])]
C5_Located(issues) == [k \in 1..Len(issues) |-> ~C5_Unlocated(issues[k])]

\* C5: translation partitions the issues without reordering or deduplication:
\* the errors are the messages of the issues that match the error pattern or
\* neither pattern (those unlocated, with the raw text), the warnings those of
\* the issues that match the warning pattern only, each in arrival order, and
\* the two lengths add up to the number of issues translated, which is the
\* whole list when the loop ends.  The loop is cut short only at an issue whose
\* file, as the pattern checked first names it, cannot be read.
C5_Partition ==
  \A i \in Invocations :
    LET r == inv[i]
        done == SubSeq(r.issues, 1, r.idx - 1)
        errs == SelectSeq(done, C5_IsError)
        warns == SelectSeq(done, C5_IsWarning)
    IN  /\ r.idx - 1 <= Len(r.issues)
        /\ [k \in 1..Len(r.errors) |-> r.errors[k].text] = C5_Texts(errs)
        /\ [k \in 1..Len(r.warnings) |-> r.warnings[k].text] = C5_Texts(warns)
        /\ [k \in 1..Len(r.errors) |-> IsSome(r.errors[k].location)] = C5_Located(errs)
        /\ \A k \in 1..Len(r.warnings) : IsSome(r.warnings[k].location)
        /\ Len(r.errors) + Len(r.warnings) = r.idx - 1
        /\ r.pc = "assemble" => r.idx - 1 = Len(r.issues)
        /\ r.pending = Reject("ENOENT source") =>
             /\ r.idx <= Len(r.issues)
             /\ ~C5_Unlocated(r.issues[r.idx])
             /\ Resolve(r.inkContainingDir, C5_File(r.issues[r.idx]))
                  \notin DOMAIN SourceFiles

\* The loop has ended on a list holding an issue that matches both patterns,
\* an unlocated one and a warning.
C5_Witness ==
  LET r == inv[1]
  IN  /\ r.pc = "assemble"
      /\ Len(r.issues) >= 4
      /\ \E k \in 1..Len(r.issues) : r.issues[k] = BothIssue
      /\ \E k \in 1..Len(r.errors) : r.errors[k].location = None
      /\ Len(r.warnings) >= 1

\* ------------------------------------------------------------------------ C1
\* C1 as stated: once an invocation that reached the process wait has settled,
\* its temporary output file is not on disk.
C1_Original ==
  \A i \in Invocations :
    (inv[i].pc = "settled" /\ Spawned(inv[i])) => ~OnDisk(inv[i])

\* C1, amended: an invocation that reached the process wait settles only after
\* one deletion of its temporary output file has been attempted, as the last
\* step, and the file is not on disk unless that deletion failed.
C1_Amended ==
  \A i \in Invocations :
    LET r == inv[i]
    IN  (r.pc = "settled" /\ Spawned(r)) =>
          /\ Count(r.log, "rm") = 1
          /\ r.log[Len(r.log)] = "rm"
          /\ ~DeletionFailed(r) => ~OnDisk(r)

\* The compiler wrote the file, translation threw, and the file is gone.
C1_Witness ==
  LET r == inv[1]
  IN  /\ r.pc = "settled"
      /\ IsSome(r.wrote)
      /\ r.outcome = Reject("ENOENT source")
      /\ ~OnDisk(r)

\* ------------------------------------------------------------------------ C2
\* The choice the claim describes, for the run state r at the end of the loop:
\* where the handler goes and what it has decided to return.
C2_Choice(r, opts) ==
  CASE opts.stats /\ IsSome(r.stats) ->
         [pc |-> "rm", pending |-> Return(r.errors, r.warnings,
                                          Some(JSONStringify(Val(r.stats))), Some("json"))]
    [] ~(opts.stats /\ IsSome(r.stats)) /\ ~r.success ->
         [pc |-> "rm", pending |-> Return(r.errors, r.warnings, None, None)]
    [] ~(opts.stats /\ IsSome(r.stats)) /\ r.success /\ r.exported ->
         [pc |-> "readOut", pending |-> NoOutcome]
    [] OTHER ->
         [pc |-> "rm", pending |-> Return(r.errors, r.warnings, None, Some("json"))]

C2_Step ==
  \A i \in Invocations :
    LET r == inv[i]
        n == inv'[i]
    IN  /\ (r.pc = "assemble" /\ n # r) =>
             /\ [pc |-> n.pc, pending |-> n.pending] = C2_Choice(r, options)
             /\ Count(n.log, "readOut") = IF n.pc = "readOut" THEN 1 ELSE 0
        /\ (r.pc = "readOut" /\ n.pc = "rm" /\ OnDisk(r)) =>
             n.pending = Return(r.errors, r.warnings, Some(disk[OutputPath(r)]),
                                Some("json"))

\* C2: when the loop has ended, the result is chosen by priority: the stats
\* option with a stats event gives the serialized stats with the JSON loader,
\* whatever the flags are and without a read of the output file; otherwise a
\* false success flag gives the errors and warnings alone; otherwise the
\* content is the output file when the export flag is true and empty when not,
\* with the JSON loader.
C2_ResultPriority == [][C2_Step]_vars

\* The stats branch was taken although the run failed and exported nothing.
C2_WitnessStats ==
  LET r == inv[1]
  IN  /\ r.pc = "rm"
      /\ ~r.success
      /\ Len(r.errors) >= 1
      /\ r.pending.contents = Some("{\"words\":12,\"knots\":1}")
      /\ Count(r.log, "readOut") = 0

\* ------------------------------------------------------------------------ C3
\* The success flag as it stood when "exit" was observed.
SuccessAtExit(r) == FoldSuccess(SubSeq(r.events, 1, r.seenAtExit))

\* C3 as stated: when the success flag is false at the exit of the process,
\* the invocation's result holds at least one error and no content.
C3_Original ==
  \A i \in Invocations :
    LET r == inv[i]
    IN  (r.pc = "settled" /\ r.proc = "exited" /\ ~SuccessAtExit(r)) =>
          /\ r.outcome.kind = "return"
          /\ Len(r.outcome.errors) >= 1
          /\ r.outcome.contents = None

C3_Step ==
  \A i \in Invocations :
    LET r == inv[i]
        n == inv'[i]
    IN  /\ (r.pc = "assemble" /\ n # r /\ ~r.success /\ ~(options.stats /\ IsSome(r.stats))) =>
             /\ n.pc = "rm"
             /\ n.pending.kind = "return"
             /\ n.pending.contents = None
             /\ n.pending.loader = None
             /\ n.pending.errors = r.errors
             /\ n.pending.warnings = r.warnings
             /\ (Len(n.pending.errors) >= 1) <=>
                  (\E k \in 1..Len(r.issues) : C5_IsError(r.issues[k]))
        /\ (r.pc = "rm" /\ n.pc = "settled") =>
             (n.outcome.kind = "return" => n.outcome = r.pending)

\* C3, amended: when the success flag is false at the time the result is
\* assembled and the stats branch does not apply (the stats option is unset or
\* no stats event was received), the invocation delivers no content: what it
\* returns carries only the translated errors and warnings, without a loader,
\* and holds an error exactly when some accumulated issue matches the error
\* pattern or neither pattern.
C3_FailureHasNoContent == [][C3_Step]_vars

\* A failed compilation was returned with its error and without content.
C3_Witness ==
  LET r == inv[1]
  IN  /\ r.pc = "settled"
      /\ ~r.success
      /\ r.outcome.kind = "return"
      /\ r.outcome.contents = None
      /\ r.outcome.loader = None
      /\ Len(r.outcome.errors) >= 1
      /\ Len(r.outcome.warnings) >= 1

\* ------------------------------------------------------------------------ C4
\* C4 as stated: every issue of every stdout event of the invocation appears
\* exactly once in the returned errors or warnings.
C4_NoIssueLost ==
  \A i \in Invocations :
    LET r == inv[i]
        all == ConcatIssues(r.events)
    IN  (r.pc = "settled" /\ r.outcome.kind = "return") =>
          /\ Len(r.outcome.errors) + Len(r.outcome.warnings) = Len(all)
          /\ [k \in 1..Len(r.outcome.errors) |-> r.outcome.errors[k].text]
               = C5_Texts(SelectSeq(all, C5_IsError))
          /\ [k \in 1..Len(r.outcome.warnings) |-> r.outcome.warnings[k].text]
               = C5_Texts(SelectSeq(all, C5_IsWarning))

\* ------------------------------------------------------------------------ C7
\* C7 as stated: after a process-level error the invocation rejects with that
\* error, having translated nothing, read nothing and spawned once, and the
\* temporary output file is not on disk.
C7_SpawnErrorRejects ==
  \A i \in Invocations :
    LET r == inv[i]
    IN  (r.pc = "settled" /\ r.proc = "failed") =>
          /\ r.outcome = Reject("spawn error")
          /\ r.log = <<"mkdir", "spawn", "error", "rm">>
          /\ r.errors = << >> /\ r.warnings = << >>
          /\ ~OnDisk(r)

\* ------------------------------------------------------------------------ C8
\* C8 as stated: whatever the outcome of the final deletion, the invocation
\* delivers what left the try block.
C8_DeletionNeverChangesOutcome ==
  \A i \in Invocations :
    LET r == inv[i]
    IN  (r.pc = "settled" /\ Spawned(r)) => r.outcome = r.pending

\* ------------------------------------------------------------------------ C9
C9_Step ==
  \A i \in Invocations :
    LET r == inv[i]
        n == inv'[i]
    IN  \* a step of one invocation changes no other invocation's locals
        /\ \A j \in Invocations \ {i} : (n # r) => (inv'[j] = inv[j])
        \* the output paths of two invocations differ
        /\ \A j \in Invocations \ {i} :
             (Spawned(n) /\ Spawned(inv'[j])) => OutputPath(n) # OutputPath(inv'[j])
        \* the file the compiler wrote stays, unchanged, until the invocation's
        \* own cleanup has run
        /\ (IsSome(n.wrote) /\ n.pc # "settled") =>
             /\ OutputPath(n) \in DOMAIN disk'
             /\ disk'[OutputPath(n)] = Val(n.wrote)
        \* the content an invocation returns from the file is its own story
        /\ (r.pc = "readOut" /\ n.pc = "rm" /\ n.pending.kind = "return") =>
             n.pending.contents = Some(Story(i))
        \* the cache holds only files resolved against its own directory,
        \* with their text
        /\ \A q \in DOMAIN n.fileCacheForBuild :
             /\ q[1] = Dirname(InputPath(i))
             /\ n.fileCacheForBuild[q] = SourceFiles[q]
        \* the run state is the fold of its own events
        /\ Spawned(n) => n.issues = ConcatIssues(n.events)

C10_Order(r) ==
  LET log == r.log
  IN  /\ Spawned(r) => (dirExists /\ Len(log) >= 2 /\ log[1] = "mkdir" /\ log[2] = "spawn")
      /\ Count(log, "spawn") <= 1
      /\ \A k \in 1..Len(log) :
           log[k] \in {"readSrc", "readOut", "rm"} =>
             \E h \in 1..(k-1) : log[h] \in {"exit", "error"}
      /\ \A k \in 1..Len(log) :
           log[k] \in {"readSrc", "readOut"} => \E h \in 1..(k-1) : log[h] = "exit"
      /\ Count(log, "readOut") <= 1
      /\ \A k \in 1..Len(log) :
           log[k] = "readOut" => (k = Len(log) \/ (k = Len(log) - 1 /\ log[Len(log)] = "rm"))
      /\ Count(log, "rm") <= 1
      /\ \A k \in 1..Len(log) : log[k] = "rm" => k = Len(log)
      /\ r.pc = "assemble" => r.idx > Len(r.issues)

\* C10 as stated: the order holds and every execution deletes exactly once,
\* as its last step.
C10_Original ==
  \A i \in Invocations :
    LET r == inv[i]
    IN  /\ C10_Order(r)
        /\ r.pc = "settled" => (Count(r.log, "rm") = 1 /\ r.log[Len(r.log)] = "rm")

\* C10, amended: the directory is created before the spawn; no source file and
\* no output file is read before "exit" is observed; the output file is read
\* at most once, after the loop over the issues has ended and before the
\* deletion; the deletion happens at most once, nothing follows it, and in
\* every execution that spawns the process and settles it happens exactly
\* once.
C10_Amended ==
  \A i \in Invocations :
    LET r == inv[i]
    IN  /\ C10_Order(r)
        /\ (r.pc = "settled" /\ Spawned(r)) =>
             (Count(r.log, "rm") = 1 /\ r.log[Len(r.log)] = "rm")
        /\ (r.pc = "settled" /\ ~Spawned(r)) => r.log = << >>

\* A settled run that read a source file, then the output file, then deleted.
C10_Witness ==
  LET r == inv[1]
  IN  /\ r.pc = "settled"
      /\ Count(r.log, "readSrc") >= 1
      /\ Count(r.log, "readOut") = 1
      /\ r.log[Len(r.log)] = "rm"

====
